---- MODULE Spec2Model ----
(***************************************************************************)
(* Model of the video pipeline of SIH_Backend:                             *)
(*   Master_LLM/ML_Models/Outer_surface/model/outer_surface.py             *)
(*     process_video: frame sampling loop, ThreadPoolExecutor dispatch of  *)
(*     process_frame tasks, as_completed aggregation into all_predictions. *)
(*                                                                         *)
(* Numbers.  Confidences and conf_threshold are floats in [0,1] in the     *)
(* code; the model holds them as integer percents (0.4 is 40), which keeps *)
(* every comparison the code makes.  The frame rate is held in halves of a *)
(* frame per second (fps2 = 2 * fps), so that fps = 1.5 is the integer 3;  *)
(* interval_sec is a whole number of seconds.                              *)
(*                                                                         *)
(*   Master_LLM/ML_Models/Inside_cave/genai.py and main.py                 *)
(*     scale_confidence, summarize_with_gemini, conclusion_analysis,       *)
(*     process_video_and_summarize and the /predict_video endpoint.        *)
(*     scale_confidence takes raw = p / 100 for a whole percent p; the     *)
(*     model keeps p and the sign of the rounding error of the float       *)
(*     product raw * 100, which is what the branch tests of the code see.  *)
(*                                                                         *)
(*   Chatbot/Chatbot.py and main.py                                        *)
(*     the module-level chat history messages, trim_history and            *)
(*     process_user_query as the /chat endpoint calls it, one call at a    *)
(*     time (the endpoint runs the call on the event loop).                *)
(***************************************************************************)
EXTENDS Integers, Sequences, FiniteSets, TLC

\* ---------------------------------------------------------------- bounds
\* Largest number of decoded frames of a video.
MaxFrames == 5
\* Largest number of decoded frames of a video when two runs are live.
MaxFramesRuns == 2
\* Largest number of process_user_query calls made.
MaxCalls == 6

\* ------------------------------------------------------ program constants
\* ThreadPoolExecutor(max_workers=4)
max_workers == 4
\* conf_threshold=0.4 (default argument), in percent
DefaultConfThreshold == 40
\* MAX_MESSAGES = 10
MAX_MESSAGES == 10

\* ------------------------------------------------------------ input sets
RunIds == {1, 2}
\* fps2 = 2 * fps : 0 (frame rate unavailable), 1.0, 2.0, 3.5 frames/second
FpsHalves == {0, 2, 4, 7}
IntervalSecs == {1, 2}
\* conf_threshold in percent: 0.0 and the default
ConfThresholds == {0, DefaultConfThreshold}

\* Detections as the gateway returns them: dicts with optional keys.
PredHigh == [class |-> "rock", confidence |-> 80, points |-> "polygon"]
PredLow == [class |-> "rock", confidence |-> 30, points |-> "polygon"]
PredEdge == [class |-> "crack", confidence |-> 40]
PredNoConf == [class |-> "dust", points |-> "polygon"]

\* What one run_workflow call can do.
GatewayError == [kind |-> "error"]
Malformed == [kind |-> "malformed"]
Ok(preds) == [kind |-> "ok", predictions |-> preds]

\* The answer of a healthy gateway for the frame decoded at position pos.
BaseAnswer(pos) ==
  CASE pos % 3 = 0 -> Ok(<<PredHigh, PredLow>>)
    [] pos % 3 = 1 -> Ok(<<PredNoConf, PredEdge>>)
    [] OTHER -> Ok(<<>>)

\* Gateways: healthy on every frame, or faulty on exactly one position.
Gateways(n) ==
  {[pos \in 0..(n - 1) |-> BaseAnswer(pos)]} \cup
  {[pos \in 0..(n - 1) |-> IF pos = bad THEN fault ELSE BaseAnswer(pos)] :
     bad \in 0..(n - 1), fault \in {GatewayError, Malformed}}

\* ------------------------------------------------------- pure functions
\* pred.get(key, default)
Get(pred, key, default) == IF key \in DOMAIN pred THEN pred[key] ELSE default

\* {k: v for k, v in pred.items() if k != "points"}
PredCopy(pred) == [k \in (DOMAIN pred) \ {"points"} |-> pred[k]]

\* (the filter with > in place of >=)
KeepsStrict(pred, conf_threshold) == Get(pred, "confidence", 0) > conf_threshold

\* if pred.get("confidence", 0) >= conf_threshold
Keeps(pred, conf_threshold) == Get(pred, "confidence", 0) >= conf_threshold

\* the "Clean + filter predictions" loop of process_frame
RECURSIVE CleanedPredictions(_, _)
CleanedPredictions(preds, conf_threshold) ==
  IF preds = <<>> THEN <<>>
  ELSE LET rest == CleanedPredictions(Tail(preds), conf_threshold)
       IN IF Keeps(Head(preds), conf_threshold)
          THEN <<PredCopy(Head(preds))>> \o rest
          ELSE rest

\* frame_interval = int(fps * interval_sec); int() truncates toward zero.
FrameInterval(fps2, interval_sec) == (fps2 * interval_sec) \div 2

\* (one scratch path shared by every task)
TempPathShared(frame_id) == <<"frame_", 0, ".jpg">>

\* temp_path = f"frame_{frame_id}.jpg" (relative to the working directory)
TempPath(frame_id) == <<"frame_", frame_id, ".jpg">>

\* output_path="predictions.json" (default argument, relative to the working
\* directory)
OutputPath == <<"predictions.json">>

\* the key f"frame_{frame_id}" of all_predictions
FrameKey(frame_id) == <<"frame_", frame_id>>

\* (the decoded position handed over in place of the sampled index)
SubmitIdDecoded(frame_count, saved_frame_count) == frame_count

\* the frame id the sampling loop hands to executor.submit
SubmitId(frame_count, saved_frame_count) == saved_frame_count

\* if frame_count % frame_interval == 0 (frame_interval is not 0 here)
IsSampled(frame_count, interval) == frame_count % interval = 0

\* What the try block makes of the gateway's answer for its frame:
\* (exception, cleaned_predictions).  run_workflow raises; or the answer has
\* no "predictions" (KeyError at result[0]["predictions"]["predictions"]);
\* or the detections are cleaned and filtered.
TaskOutcome(answer, conf_threshold) ==
  CASE answer.kind = "error" -> <<"GatewayError", <<>>>>
    [] answer.kind = "malformed" -> <<"KeyError", <<>>>>
    [] OTHER -> <<"none", CleanedPredictions(answer.predictions, conf_threshold)>>

\* A Python dict is kept as the sequence of its (key, value) items in
\* insertion order.
DictKeys(d) == [i \in 1..Len(d) |-> d[i][1]]
DictHas(d, key) == \E i \in 1..Len(d) : d[i][1] = key
DictGet(d, key) == d[CHOOSE i \in 1..Len(d) : d[i][1] = key][2]
\* d[key] = value
DictSet(d, key, value) ==
  IF DictHas(d, key)
  THEN [i \in 1..Len(d) |-> IF d[i][1] = key THEN <<key, value>> ELSE d[i]]
  ELSE Append(d, <<key, value>>)

\* ----------------------------------------------------------------- state
VARIABLES
  runs,               \* the calls of process_video that may be made
  input,              \* per run: the video, interval_sec, conf_threshold, gateway
  pc,                 \* per run: where the caller's thread is in process_video
  exc,                \* per run: the exception process_video left with
  frame_interval,     \* per run
  frame_count,        \* per run
  saved_frame_count,  \* per run
  futures,            \* per run: the submitted tasks, in submission order
  consumed,           \* per run: frame ids as_completed has yielded
  all_predictions,    \* per run: the dict being built / returned
  files,              \* the working directory: path -> content
  out_file,           \* per run: the file object f of "with open(output_path)"
  request,            \* a /predict_video call: what the video stage and the
                      \* text-generation collaborator will do
  gpc,                \* where that call is in process_video_and_summarize
  predictions,        \* all_predictions as process_video_file returned it
  summary,            \* what summarize_with_gemini returned
  result,             \* how process_video_and_summarize ended
  response,           \* how predict_video ended
  seed,               \* the Analysis handed to conclusion_analysis directly
  concluded,          \* the results of successive conclusion_analysis calls
  messages,           \* Chatbot.messages, the module-level chat history
  cpc,                \* where the current process_user_query call is
  user_query,         \* the argument of the current call
  chat_result,        \* how the last process_user_query call ended
  logged,             \* number of entries written to conversation_log.json
  calls               \* number of process_user_query calls made so far

cvars == <<messages, cpc, user_query, chat_result, logged, calls>>

gvars == <<request, gpc, predictions, summary, result, response, seed,
           concluded, cvars>>

vars == <<runs, input, pc, exc, frame_interval, frame_count,
          saved_frame_count, futures, consumed, all_predictions, files,
          out_file, gvars>>

\* a Python None / a variable not assigned yet
None == [t |-> "None"]

NoFile == <<"nofile">>

\* messages = [{"role": "model", "parts": [{"text": system_prompt}]}]
SeedMessage == [role |-> "model", text |-> "system_prompt"]

\* The Chatbot module as imported, no call of process_user_query made.
InitMessages ==
  /\ messages = <<SeedMessage>>
  /\ user_query = None
  /\ chat_result = None
  /\ logged = 0
  /\ calls = 0

InitNoChat ==
  /\ InitMessages
  /\ cpc = "off"

\* Videos: one that cannot be opened, or n decoded frames at fps2/2 fps.
Videos(maxn) ==
  {[opened |-> FALSE, nframes |-> 0, fps2 |-> 0]} \cup
  {[opened |-> TRUE, nframes |-> n, fps2 |-> f] : n \in 0..maxn, f \in FpsHalves}

Inputs(maxn) ==
  {[video |-> v, interval_sec |-> s, conf_threshold |-> t, gateway |-> g] :
     v \in Videos(maxn), s \in IntervalSecs, t \in ConfThresholds,
     g \in Gateways(maxn)}

InitRun ==
  /\ pc = [r \in RunIds |-> "idle"]
  /\ exc = [r \in RunIds |-> "none"]
  /\ frame_interval = [r \in RunIds |-> 0]
  /\ frame_count = [r \in RunIds |-> 0]
  /\ saved_frame_count = [r \in RunIds |-> 0]
  /\ futures = [r \in RunIds |-> <<>>]
  /\ consumed = [r \in RunIds |-> {}]
  /\ all_predictions = [r \in RunIds |-> <<>>]
  /\ files = <<>>
  /\ out_file = [r \in RunIds |-> "none"]

\* No /predict_video call and no direct conclusion_analysis call is made.
InitNoCall ==
  /\ request = None
  /\ gpc = "off"
  /\ predictions = None
  /\ summary = None
  /\ result = None
  /\ response = None
  /\ seed = None
  /\ concluded = <<>>
  /\ InitNoChat

\* One call of process_video.
Init ==
  /\ runs = {1}
  /\ \E i \in Inputs(MaxFrames) : input = [r \in RunIds |-> i]
  /\ InitRun
  /\ InitNoCall

\* Two calls in the same working directory, each on a video that opens and
\* has at least one frame, sampled at 1 fps every second with the default
\* threshold.
InputsRuns ==
  {i \in Inputs(MaxFramesRuns) :
     /\ i.video.opened /\ i.video.nframes >= 1 /\ i.video.fps2 = 2
     /\ i.interval_sec = 1 /\ i.conf_threshold = DefaultConfThreshold}

InitRuns ==
  /\ runs = RunIds
  /\ input \in [RunIds -> InputsRuns]
  /\ InitRun
  /\ InitNoCall

\* ------------------------------------------------------------- file system
Exists(path) == path \in DOMAIN files
WriteFile(path, content) ==
  [p \in (DOMAIN files) \cup {path} |-> IF p = path THEN content ELSE files[p]]
RemoveFile(path) == [p \in (DOMAIN files) \ {path} |-> files[p]]

\* ---------------------------------------------------------- the output file
\* The number of characters json.dump(all_predictions, f, indent=4) writes.
\* A detection holds "class" and, unless the gateway left it out,
\* "confidence"; a confidence of p percent is the float p/100 ("0.8", "0.45").
ClassLen(class) == IF class = "crack" THEN 5 ELSE 4
ConfLen(p) == IF p % 10 = 0 THEN 3 ELSE 4
Digits(n) == IF n < 10 THEN 1 ELSE IF n < 100 THEN 2 ELSE 3

\* one detection: "{", a line per field, "}" at indent 8
DetectionLen(d) ==
  10 + (23 + ClassLen(d["class"]))
     + (IF "confidence" \in DOMAIN d THEN 2 + 26 + ConfLen(d["confidence"]) ELSE 0)
     + 1 + 9

RECURSIVE DetectionsLen(_)
DetectionsLen(list) ==
  IF list = <<>> THEN 0
  ELSE DetectionLen(Head(list)) + (IF Len(list) > 1 THEN 2 ELSE 1)
       + DetectionsLen(Tail(list))

\* one item: "frame_<id>": [ ... ] at indent 4
ItemLen(item) ==
  4 + (8 + Digits(item[1][2])) + 2
    + (IF item[2] = <<>> THEN 2 ELSE 2 + DetectionsLen(item[2]) + 5)

RECURSIVE ItemsLen(_)
ItemsLen(items) ==
  IF items = <<>> THEN 0
  ELSE ItemLen(Head(items)) + (IF Len(items) > 1 THEN 2 ELSE 1)
       + ItemsLen(Tail(items))

JsonLen(d) == IF d = <<>> THEN 2 ELSE 2 + ItemsLen(d) + 1

\* The output file holds a text, kept as its pieces in order: the characters
\* from..to-1 of the JSON text of a dict.  An empty file is <<>>; a file
\* with one piece that is a whole text is that dict as JSON.
Piece(d, from, to) == [of |-> d, from |-> from, to |-> to]

\* the pieces of a text from position n on
TextFrom(text, n) ==
  LET kept == SelectSeq(text, LAMBDA piece : piece.to > n)
  IN [k \in 1..Len(kept) |->
        IF kept[k].from < n THEN Piece(kept[k].of, n, kept[k].to) ELSE kept[k]]

\* The text of d written at position 0 of a file that holds text: what the
\* file held beyond the end of the new text stays.
WriteAtStart(text, d) == <<Piece(d, 0, JsonLen(d))>> \o TextFrom(text, JsonLen(d))

\* --------------------------------------------------------------- the tasks
Live == {"call", "finally", "remove"}

NewTask(frame_id, frame) ==
  [frame_id |-> frame_id, frame |-> frame, st |-> "queued",
   payload |-> NoFile, result |-> <<>>, error |-> "none"]

SetTask(r, i, t) == futures' = [futures EXCEPT ![r][i] = t]

\* What the body of the try block makes of the payload it sent:
\* (exception, cleaned_predictions).
TryBody(r, payload) ==
  IF payload = NoFile THEN <<"GatewayError", <<>>>>
  ELSE TaskOutcome(input[payload[1]].gateway[payload[2]],
                   input[r].conf_threshold)

\* (cleanup reached on the success path only, as without try/finally)
AfterTryNoFinally(error) == IF error = "none" THEN "finally" ELSE "done"

\* try: ... finally: the finally clause runs on every exit of the try body.
AfterTry(error) == "finally"

\* The tasks of run r up to task i that hold or wait for a worker thread.
NotDoneUpTo(r, i) == {j \in 1..i : futures[r][j].st # "done"}

\* A worker thread that took task i from the pool's queue starts
\* process_frame: cv2.imwrite(temp_path, frame).  The pool hands the tasks
\* out in submission order to its max_workers threads, and a thread keeps its
\* task until the task is done; the threads then run at their own pace, so
\* the write of a later task may come before the write of an earlier one.
TaskStart(r, i) ==
  /\ r \in runs
  /\ i \in 1..Len(futures[r])
  /\ futures[r][i].st = "queued"
  /\ Cardinality(NotDoneUpTo(r, i)) <= max_workers
  /\ LET t == futures[r][i]
     IN /\ files' = WriteFile(TempPath(t.frame_id), t.frame)
        /\ SetTask(r, i, [t EXCEPT !.st = "call"])
  /\ UNCHANGED <<runs, input, pc, exc, frame_interval, frame_count,
                 saved_frame_count, consumed, all_predictions,
                 out_file, gvars>>

\* client.run_workflow(images={"image": temp_path}) reads the file at
\* temp_path, then the result is cleaned and filtered; control reaches finally.
Infer(r, i) ==
  /\ r \in runs
  /\ i \in 1..Len(futures[r])
  /\ futures[r][i].st = "call"
  /\ LET t == futures[r][i]
         path == TempPath(t.frame_id)
         payload == IF Exists(path) THEN files[path] ELSE NoFile
         out == TryBody(r, payload)
     IN SetTask(r, i, [t EXCEPT !.st = AfterTry(out[1]), !.payload = payload,
                                !.error = out[1], !.result = out[2]])
  /\ UNCHANGED <<runs, input, pc, exc, frame_interval, frame_count,
                 saved_frame_count, consumed, all_predictions, files,
                 out_file, gvars>>

\* finally: if os.path.exists(temp_path)
ExistsCheck(r, i) ==
  /\ r \in runs
  /\ i \in 1..Len(futures[r])
  /\ futures[r][i].st = "finally"
  /\ LET t == futures[r][i]
     IN SetTask(r, i, [t EXCEPT !.st = IF Exists(TempPath(t.frame_id))
                                       THEN "remove" ELSE "done"])
  /\ UNCHANGED <<runs, input, pc, exc, frame_interval, frame_count,
                 saved_frame_count, consumed, all_predictions, files,
                 out_file, gvars>>

\* os.remove(temp_path); it raises FileNotFoundError when the file is gone.
Remove(r, i) ==
  /\ r \in runs
  /\ i \in 1..Len(futures[r])
  /\ futures[r][i].st = "remove"
  /\ LET t == futures[r][i]
         path == TempPath(t.frame_id)
     IN IF Exists(path)
        THEN /\ files' = RemoveFile(path)
             /\ SetTask(r, i, [t EXCEPT !.st = "done"])
        ELSE /\ files' = files
             /\ SetTask(r, i, [t EXCEPT !.st = "done",
                                        !.error = "FileNotFoundError",
                                        !.result = <<>>])
  /\ UNCHANGED <<runs, input, pc, exc, frame_interval, frame_count,
                 saved_frame_count, consumed, all_predictions,
                 out_file, gvars>>

\* ------------------------------------------------------ the caller's thread
\* cap = cv2.VideoCapture(video_path) ... futures = []
Start(r) ==
  /\ r \in runs
  /\ pc[r] = "idle"
  /\ IF ~input[r].video.opened
     THEN /\ pc' = [pc EXCEPT ![r] = "raised"]
          /\ exc' = [exc EXCEPT ![r] = "RuntimeError"]
          /\ UNCHANGED frame_interval
     ELSE /\ pc' = [pc EXCEPT ![r] = "loop"]
          /\ frame_interval' = [frame_interval EXCEPT ![r] =
               FrameInterval(input[r].video.fps2, input[r].interval_sec)]
          /\ UNCHANGED exc
  /\ UNCHANGED <<runs, input, frame_count, saved_frame_count, futures,
                 consumed, all_predictions, files,
                 out_file, gvars>>

\* One iteration of the while True loop.
ReadFrame(r) ==
  /\ r \in runs
  /\ pc[r] = "loop"
  /\ IF frame_count[r] >= input[r].video.nframes
     THEN \* ret is False: break
          /\ pc' = [pc EXCEPT ![r] = "aggregate"]
          /\ UNCHANGED <<exc, frame_count, saved_frame_count, futures>>
     ELSE IF frame_interval[r] = 0
     THEN \* frame_count % 0
          /\ pc' = [pc EXCEPT ![r] = "raised"]
          /\ exc' = [exc EXCEPT ![r] = "ZeroDivisionError"]
          /\ UNCHANGED <<frame_count, saved_frame_count, futures>>
     ELSE /\ IF IsSampled(frame_count[r], frame_interval[r])
             THEN /\ futures' = [futures EXCEPT ![r] = Append(@,
                       NewTask(SubmitId(frame_count[r], saved_frame_count[r]),
                               <<r, frame_count[r]>>))]
                  /\ saved_frame_count' =
                       [saved_frame_count EXCEPT ![r] = @ + 1]
             ELSE UNCHANGED <<futures, saved_frame_count>>
          /\ frame_count' = [frame_count EXCEPT ![r] = @ + 1]
          /\ UNCHANGED <<pc, exc>>
  /\ UNCHANGED <<runs, input, frame_interval, consumed,
                 all_predictions, files,
                 out_file, gvars>>

\* One iteration of "for future in as_completed(futures)": future.result()
\* re-raises the task's exception, else the result is stored.
Collect(r, i) ==
  /\ r \in runs
  /\ pc[r] = "aggregate"
  /\ i \in 1..Len(futures[r])
  /\ i \notin consumed[r]
  /\ futures[r][i].st = "done"
  /\ consumed' = [consumed EXCEPT ![r] = @ \cup {i}]
  /\ LET t == futures[r][i]
     IN IF t.error # "none"
        THEN /\ pc' = [pc EXCEPT ![r] = "raised"]
             /\ exc' = [exc EXCEPT ![r] = t.error]
             /\ UNCHANGED all_predictions
        ELSE /\ all_predictions' = [all_predictions EXCEPT ![r] =
                  DictSet(@, FrameKey(t.frame_id), t.result)]
             /\ UNCHANGED <<pc, exc>>
  /\ UNCHANGED <<runs, input, frame_interval, frame_count,
                 saved_frame_count, futures, files,
                 out_file, gvars>>

\* with open(output_path, "w") as f: the file is created or cut to length
\* 0, and f starts at position 0.
OpenOutput(r) ==
  /\ r \in runs
  /\ pc[r] = "aggregate"
  /\ consumed[r] = 1..Len(futures[r])
  /\ out_file[r] = "none"
  /\ files' = WriteFile(OutputPath, <<>>)
  /\ out_file' = [out_file EXCEPT ![r] = "open"]
  /\ UNCHANGED <<runs, input, pc, exc, frame_interval, frame_count,
                 saved_frame_count, futures, consumed, all_predictions,
                 gvars>>

\* json.dump(all_predictions, f, indent=4) and the end of the with block:
\* the text, held in the buffer of f until then, is written at the position
\* of f when f is closed; cap.release(), executor.shutdown(), return
\* all_predictions.
Finish(r) ==
  /\ r \in runs
  /\ pc[r] = "aggregate"
  /\ out_file[r] = "open"
  /\ files' = WriteFile(OutputPath,
                        WriteAtStart(IF Exists(OutputPath) THEN files[OutputPath]
                                     ELSE <<>>,
                                     all_predictions[r]))
  /\ out_file' = [out_file EXCEPT ![r] = "closed"]
  /\ pc' = [pc EXCEPT ![r] = "returned"]
  /\ UNCHANGED <<runs, input, exc, frame_interval, frame_count,
                 saved_frame_count, futures, consumed, all_predictions,
                 gvars>>

Next ==
  \/ \E r \in RunIds : Start(r)
  \/ \E r \in RunIds : ReadFrame(r)
  \/ \E r \in RunIds, i \in 1..MaxFrames : TaskStart(r, i)
  \/ \E r \in RunIds, i \in 1..MaxFrames : Infer(r, i)
  \/ \E r \in RunIds, i \in 1..MaxFrames : ExistsCheck(r, i)
  \/ \E r \in RunIds, i \in 1..MaxFrames : Remove(r, i)
  \/ \E r \in RunIds, i \in 1..MaxFrames : Collect(r, i)
  \/ \E r \in RunIds : OpenOutput(r)
  \/ \E r \in RunIds : Finish(r)

Spec == Init /\ [][Next]_vars
SpecRuns == InitRuns /\ [][Next]_vars

TypeOK ==
  /\ \A r \in RunIds : pc[r] \in {"idle", "loop", "aggregate", "returned", "raised"}
  /\ \A r \in RunIds : saved_frame_count[r] = Len(futures[r])

\* ------------------------------------------------- vocabulary of the claims
Tasks(r) == 1..Len(futures[r])
\* the caller has control again: process_video returned or raised
Left(r) == pc[r] \in {"returned", "raised"}
Ended(r, i) == futures[r][i].st = "done"
\* the confidence of a detection, an absent field counting as 0
Conf(d) == IF "confidence" \in DOMAIN d THEN d["confidence"] ELSE 0
\* the gateway's answer for the frame task i of run r was given
AnswerOf(r, i) == input[r].gateway[futures[r][i].frame[2]]
\* the detections of preds at or above thr, in order, without "points"
RefDetections(preds, thr) ==
  LET kept == SelectSeq(preds, LAMBDA p : Conf(p) >= thr)
  IN [k \in 1..Len(kept) |->
        [f \in (DOMAIN kept[k]) \ {"points"} |-> kept[k][f]]]
\* the frame index a key of all_predictions names
KeyIndex(key) == key[2]
\* round() of Python on x2/2: halves go to the even neighbour
RoundHalves(x2) ==
  LET low == x2 \div 2
  IN IF x2 % 2 = 0 THEN low ELSE IF low % 2 = 0 THEN low ELSE low + 1
CeilDiv(a, b) == (a + b - 1) \div b

\* ------------------------------------------------------------------ claims

\* C1: every temporary artifact frame_<id>.jpg written by a process_frame
\* task is gone once that task has ended, whichever way the task ended
\* (result, gateway error, exception while cleaning); so once every submitted
\* task has ended the working directory holds no artifact of the run (the
\* output file predictions.json is all it may hold).
C1_ArtifactsReleased ==
  \A r \in runs :
    /\ \A i \in Tasks(r) :
         Ended(r, i) => ~Exists(<<"frame_", futures[r][i].frame_id, ".jpg">>)
    /\ (pc[r] \notin {"idle", "loop"} /\ \A i \in Tasks(r) : Ended(r, i))
         => DOMAIN files \subseteq {<<"predictions.json">>}

C1_Witness ==
  \E r \in runs :
    /\ Len(futures[r]) >= 3
    /\ \A i \in Tasks(r) : Ended(r, i)
    /\ \E i \in Tasks(r) : futures[r][i].error \in {"GatewayError", "KeyError"}
    /\ \E i \in Tasks(r) : futures[r][i].error = "none"
    /\ files = <<>>

\* C2 (as claimed): when the gateway call of one frame's task fails,
\* process_video still returns, the failed frame maps to the empty list and
\* every other frame maps to its own filtered detections.
C2_FailureIsolated ==
  \A r \in runs : \A i \in Tasks(r) :
    (Left(r) /\ Ended(r, i) /\ futures[r][i].error = "GatewayError")
      => /\ pc[r] = "returned"
         /\ DictHas(all_predictions[r], FrameKey(futures[r][i].frame_id))
         /\ DictGet(all_predictions[r], FrameKey(futures[r][i].frame_id)) = <<>>
         /\ \A j \in Tasks(r) \ {i} :
              /\ DictHas(all_predictions[r], FrameKey(futures[r][j].frame_id))
              /\ DictGet(all_predictions[r], FrameKey(futures[r][j].frame_id))
                   = RefDetections(AnswerOf(r, j).predictions,
                                   input[r].conf_threshold)

\* C3 (as claimed): process_video has returned or raised only when every
\* task it submitted has ended.
C3_JoinBeforeLeave ==
  \A r \in runs : Left(r) => \A i \in Tasks(r) : Ended(r, i)

\* C4: the keys of the returned prediction set are exactly frame_0 ..
\* frame_(n-1), n the number of submitted frames, each once.
C4_KeysContiguous ==
  \A r \in runs :
    pc[r] = "returned"
      => /\ Len(all_predictions[r]) = Len(futures[r])
         /\ {all_predictions[r][a][1] : a \in 1..Len(all_predictions[r])}
              = {<<"frame_", k>> : k \in 0..(Len(futures[r]) - 1)}

C4_Witness ==
  \E r \in runs :
    /\ pc[r] = "returned"
    /\ frame_interval[r] = 2
    /\ Len(all_predictions[r]) >= 3
    /\ KeyIndex(all_predictions[r][1][1]) # 0

\* C5: whatever the order in which the tasks are started, run and complete
\* on the pool (process_video always builds it with max_workers = 4, so
\* that is the one width a run has), the returned mapping is the one fixed
\* by the inputs: sampled frame k maps to the filtered gateway answer of
\* that frame.
C5_SchedulingIndependent ==
  \A r \in runs :
    pc[r] = "returned"
      => /\ Len(all_predictions[r]) = saved_frame_count[r]
         /\ \A k \in 0..(saved_frame_count[r] - 1) :
              /\ input[r].gateway[k * frame_interval[r]].kind = "ok"
              /\ DictHas(all_predictions[r], <<"frame_", k>>)
              /\ DictGet(all_predictions[r], <<"frame_", k>>)
                   = RefDetections(
                       input[r].gateway[k * frame_interval[r]].predictions,
                       input[r].conf_threshold)

C5_Witness ==
  \E r \in runs :
    /\ pc[r] = "returned"
    /\ Len(all_predictions[r]) > max_workers
    /\ KeyIndex(all_predictions[r][1][1]) = Len(all_predictions[r]) - 1
    /\ input[r].conf_threshold = DefaultConfThreshold

\* C6 (as claimed): the returned prediction set iterates in ascending
\* frame-index order.
C6_IteratesByIndex ==
  \A r \in runs :
    pc[r] = "returned"
      => \A a, b \in 1..Len(all_predictions[r]) :
           a < b => KeyIndex(all_predictions[r][a][1])
                      < KeyIndex(all_predictions[r][b][1])

\* C7: in every state, a detection list held for a frame (by a task that
\* inferred it, or in the prediction set) holds only detections with
\* confidence >= threshold and holds every gateway detection of that frame
\* with confidence >= threshold (no confidence field counts as 0).
FilteredFrom(list, preds, thr) ==
  /\ \A k \in 1..Len(list) : Conf(list[k]) >= thr
  /\ \A j \in 1..Len(preds) :
       Conf(preds[j]) >= thr
         => \E k \in 1..Len(list) :
              /\ list[k]["class"] = preds[j]["class"]
              /\ Conf(list[k]) = Conf(preds[j])
  /\ Len(list) = Cardinality({j \in 1..Len(preds) : Conf(preds[j]) >= thr})

C7_ThresholdFilter ==
  \A r \in runs :
    /\ \A i \in Tasks(r) :
         (futures[r][i].st # "queued" /\ futures[r][i].st # "call"
            /\ futures[r][i].error = "none")
           => FilteredFrom(futures[r][i].result, AnswerOf(r, i).predictions,
                           input[r].conf_threshold)
    /\ \A a \in 1..Len(all_predictions[r]) :
         FilteredFrom(all_predictions[r][a][2],
                      AnswerOf(r, KeyIndex(all_predictions[r][a][1]) + 1).predictions,
                      input[r].conf_threshold)

C7_Witness ==
  \E r \in runs :
    /\ pc[r] = "aggregate"
    /\ input[r].conf_threshold = DefaultConfThreshold
    /\ consumed[r] # Tasks(r)
    /\ \E a, b \in 1..Len(all_predictions[r]) :
         /\ all_predictions[r][a][2] = <<[class |-> "rock", confidence |-> 80]>>
         /\ all_predictions[r][b][2] = <<[class |-> "crack", confidence |-> 40]>>

\* C8 (as claimed): while a task is live its artifact path holds what that
\* task wrote (no other task has overwritten or deleted it), and the payload
\* a task sent is the one it wrote.
C8_ExclusiveArtifacts ==
  \A r \in runs : \A i \in Tasks(r) :
    LET t == futures[r][i]
        path == TempPath(t.frame_id)
    IN /\ t.st \in Live => (Exists(path) /\ files[path] = t.frame)
       /\ t.st \in {"finally", "remove", "done"} => t.payload = t.frame

\* C9 (as claimed): with a frame rate of zero, or a product fps x interval
\* that gives stride 0, the sampler works with stride 1: no modulus by zero
\* is taken and every decoded frame is sampled.
C9_ZeroStrideDefaultsToOne ==
  \A r \in runs :
    /\ exc[r] # "ZeroDivisionError"
    /\ (pc[r] \in {"aggregate", "returned"}
          /\ (input[r].video.fps2 * input[r].interval_sec) \div 2 = 0)
         => saved_frame_count[r] = input[r].video.nframes

\* C10 (as claimed): the stride is round(fps x interval_sec); the frames
\* at positions 0, stride, 2*stride, ... are submitted with indices 0, 1, 2,
\* ... and ceil(N / stride) frames are sampled out of N.
C10_StrideIsRounded ==
  \A r \in runs :
    LET stride == RoundHalves(input[r].video.fps2 * input[r].interval_sec)
    IN /\ (pc[r] \in {"loop", "aggregate", "returned"} /\ frame_count[r] > 0)
            => frame_interval[r] = stride
       /\ (pc[r] \in {"aggregate", "returned"} /\ stride > 0)
            => /\ saved_frame_count[r]
                    = CeilDiv(input[r].video.nframes, stride)
               /\ \A i \in Tasks(r) :
                    /\ futures[r][i].frame_id = i - 1
                    /\ futures[r][i].frame[2] = (i - 1) * stride

\* ======================================================================
\* Master_LLM/ML_Models/Inside_cave/genai.py
\* ======================================================================

\* ---------------------------------------------------------------- bounds
\* Largest number of conclusion_analysis calls chained on one seed.
MaxApplications == 2

\* raw confidences p / 100, p a whole percent
Percents == 0..100

\* ------------------------------------------------------- scale_confidence
\* actual = conf * 100 is a float product: for conf = p / 100 it is p, or p
\* off by one unit in the last place.  The sign of that error:
FloatError(p) ==
  CASE p \in {7, 14, 28, 55, 56} -> 1
    [] p \in {29, 57, 58} -> 0 - 1
    [] OTHER -> 0

\* actual <= bound
ActualLeq(p, bound) == p < bound \/ (p = bound /\ FloatError(p) <= 0)

\* (int(scaled): truncation, the round() left out)
TruncToInt(num, den) == num \div den

\* int(round(scaled)) for scaled = num / den >= 0: round() of Python takes
\* the nearest integer, halves to the even neighbour.  The float error of
\* scaled is far below the distance of num / den to a half here.
RoundToInt(num, den) ==
  LET q == num \div den
      r == num % den
  IN IF 2 * r < den THEN q
     ELSE IF 2 * r > den THEN q + 1
     ELSE IF q % 2 = 0 THEN q ELSE q + 1

\* (the last branch returning the raw percent, no ceiling)
ScaleConfidenceUncapped(p) ==
  IF ActualLeq(p, 40) THEN RoundToInt(p, 1)
  ELSE IF ActualLeq(p, 55)
  THEN RoundToInt(40 * (55 - 40) + (p - 40) * (90 - 40), 55 - 40)
  ELSE IF ActualLeq(p, 60)
  THEN RoundToInt(90 * (60 - 55) + (p - 55) * (95 - 90), 60 - 55)
  ELSE RoundToInt(p, 1)

\* scale_confidence(p / 100)
ScaleConfidence(p) ==
  IF ActualLeq(p, 40) THEN RoundToInt(p, 1)
  ELSE IF ActualLeq(p, 55)
  THEN RoundToInt(40 * (55 - 40) + (p - 40) * (90 - 40), 55 - 40)
  ELSE IF ActualLeq(p, 60)
  THEN RoundToInt(90 * (60 - 55) + (p - 55) * (95 - 90), 60 - 55)
  ELSE RoundToInt(98, 1)

\* ---------------------------------------------------- conclusion_analysis
\* (the tiers cut with < in place of <=)
RiskOfStrict(conf) ==
  IF conf < 40 THEN "Low"
  ELSE IF conf < 60 THEN "Medium"
  ELSE IF conf < 75 THEN "High"
  ELSE "Very High"

\* "Adjust riskLevel based on confidence"
RiskOf(conf) ==
  IF conf <= 40 THEN "Low"
  ELSE IF conf <= 60 THEN "Medium"
  ELSE IF conf <= 75 THEN "High"
  ELSE "Very High"

\* (the trajectory always recomputed from the confidence)
FillTrajectoryAlways(trajectory, conf) ==
  IF conf > 70 THEN "Unstable" ELSE IF conf > 50 THEN "Moderate" ELSE "Stable"

\* "Adjust trajectory if missing"
FillTrajectory(trajectory, conf) ==
  IF trajectory = "Unknown"
  THEN IF conf > 70 THEN "Unstable"
       ELSE IF conf > 50 THEN "Moderate" ELSE "Stable"
  ELSE trajectory

\* "Adjust rockSize if missing"
FillRockSize(rock_size, conf) ==
  IF rock_size = "Unknown"
  THEN IF conf > 75 THEN "Large"
       ELSE IF conf > 50 THEN "Medium" ELSE "Small"
  ELSE rock_size

\* (the list started from the recommendations of the seed)
InitialRecommendationsOfSeed(analysis) == Get(analysis, "recommendations", <<>>)

\* recommendations = []
InitialRecommendations(analysis) == <<>>

\* ("Schedule inspection" for Large rocks only)
TierRecommendationsLargeOnly(risk, rock_size, trajectory) ==
  IF risk \in {"Low", "Medium"}
  THEN <<"Continue monitoring">> \o
       (IF rock_size \in {"Large"} THEN <<"Schedule inspection">> ELSE <<>>)
  ELSE IF risk \in {"High", "Very High"}
  THEN <<"Immediate inspection", "Evacuate personnel if necessary">> \o
       (IF trajectory = "Unstable"
        THEN <<"Reinforce support structures">> ELSE <<>>)
  ELSE <<>>

\* "Adjust recommendations based on riskLevel": what the branches append
TierRecommendations(risk, rock_size, trajectory) ==
  IF risk \in {"Low", "Medium"}
  THEN <<"Continue monitoring">> \o
       (IF rock_size \in {"Medium", "Large"}
        THEN <<"Schedule inspection">> ELSE <<>>)
  ELSE IF risk \in {"High", "Very High"}
  THEN <<"Immediate inspection", "Evacuate personnel if necessary">> \o
       (IF trajectory = "Unstable"
        THEN <<"Reinforce support structures">> ELSE <<>>)
  ELSE <<>>

\* list(dict.fromkeys(recommendations)): first occurrences, in order
RECURSIVE Dedup(_)
Dedup(list) ==
  IF list = <<>> THEN <<>>
  ELSE LET init == Dedup(SubSeq(list, 1, Len(list) - 1))
           last == list[Len(list)]
       IN IF \E k \in 1..Len(init) : init[k] = last
          THEN init ELSE Append(init, last)

\* (the recommendations assembled before rockSize and trajectory are filled)
ConclusionAnalysisLateFill(analysis) ==
  LET conf == Get(analysis, "confidence", 0)
      rock_size == Get(analysis, "rockSize", "Unknown")
      trajectory == Get(analysis, "trajectory", "Unknown")
      risk == RiskOf(conf)
  IN [riskLevel |-> risk,
      confidence |-> conf,
      trajectory |-> FillTrajectory(trajectory, conf),
      rockSize |-> FillRockSize(rock_size, conf),
      recommendations |->
        Dedup(InitialRecommendations(analysis) \o
              TierRecommendations(risk, rock_size, trajectory))]

\* conclusion_analysis(analysis)
ConclusionAnalysis(analysis) ==
  LET conf == Get(analysis, "confidence", 0)
      risk == RiskOf(conf)
      trajectory == FillTrajectory(Get(analysis, "trajectory", "Unknown"), conf)
      rock_size == FillRockSize(Get(analysis, "rockSize", "Unknown"), conf)
  IN [riskLevel |-> risk,
      confidence |-> conf,
      trajectory |-> trajectory,
      rockSize |-> rock_size,
      recommendations |->
        Dedup(InitialRecommendations(analysis) \o
              TierRecommendations(risk, rock_size, trajectory))]

\* ------------------------------------------- conclusion_analysis, directly
AnalysisKeys ==
  {"riskLevel", "confidence", "trajectory", "rockSize", "recommendations"}

\* Seeds with every key present.
FullSeeds ==
  [riskLevel : {"Unknown", "Low", "Very High"},
   confidence : Percents,
   trajectory : {"Unknown", "Stable", "Moderate", "Unstable"},
   rockSize : {"Unknown", "Small", "Medium", "Large"},
   recommendations : {<<>>, <<"Wear helmets">>,
                      <<"Continue monitoring", "Continue monitoring">>}]

\* The keys a seed dict may lack.
MissingKeys ==
  {{}, {"confidence"}, {"trajectory", "rockSize"}, {"recommendations"},
   AnalysisKeys}

Seeds ==
  {[k \in AnalysisKeys \ missing |-> full[k]] :
     full \in FullSeeds, missing \in MissingKeys}

\* No call of process_video is made.
InitNoRun ==
  /\ runs = {}
  /\ input = [r \in RunIds |-> None]
  /\ InitRun

\* conclusion_analysis is called on a seed, then on its own results.
InitEngine ==
  /\ InitNoRun
  /\ request = None
  /\ gpc = "engine"
  /\ predictions = None
  /\ summary = None
  /\ result = None
  /\ response = None
  /\ seed \in Seeds
  /\ concluded = <<>>
  /\ InitNoChat

Conclude ==
  /\ gpc = "engine"
  /\ Len(concluded) < MaxApplications
  /\ concluded' = Append(concluded,
       ConclusionAnalysis(IF concluded = <<>> THEN seed
                          ELSE concluded[Len(concluded)]))
  /\ UNCHANGED <<runs, input, pc, exc, frame_interval, frame_count,
                 saved_frame_count, futures, consumed, all_predictions, files,
                 out_file,
                 request, gpc, predictions, summary, result, response, seed,
                 cvars>>

NextEngine == Conclude

SpecEngine == InitEngine /\ [][NextEngine]_vars

\* ------------------------------------------------- summarize_with_gemini
\* Python values json.loads can return.
JObject(fields) == [t |-> "dict", v |-> fields]
JArray(items) == [t |-> "list", v |-> items]
JNumber(n) == [t |-> "int", v |-> n]
\* a body json.loads rejects
NotJson == [t |-> "notjson"]

\* safe_json_loads(text): text is a body, bare, inside a ``` or ```json
\* fence, or after a sentence of prose.  The fences are stripped, and
\* json.loads fails (None is returned) on prose and on a body that is no JSON.
SafeJsonLoads(text) ==
  IF text.wrap = "prose" \/ text.body.t = "notjson" THEN None ELSE text.body

\* the truth value Python gives a value (if not summary)
Truthy(value) ==
  CASE value.t = "None" -> FALSE
    [] value.t = "dict" -> DOMAIN value.v # {}
    [] value.t = "list" -> Len(value.v) # 0
    [] value.t = "int" -> value.v # 0
    [] OTHER -> TRUE

\* the loop "for p in preds" keeping the highest confidence seen
RECURSIVE HighestInList(_, _)
HighestInList(preds, highest_conf) ==
  IF preds = <<>> THEN highest_conf
  ELSE LET conf == Get(Head(preds), "confidence", 0)
       IN HighestInList(Tail(preds),
                        IF conf > highest_conf THEN conf ELSE highest_conf)

\* the loop "for frame, preds in predictions.items()"
RECURSIVE HighestConf(_, _)
\* As process_video_and_summarize sees it, a prediction set is the mapping
\* from its keys to the detection lists: the order of the items of a dict
\* returned by process_video is the order in which the tasks completed, and
\* the code reads the items only to take the highest confidence and to list
\* them in the prompt.
AsMapping(items) ==
  [key \in {items[k][1] : k \in 1..Len(items)} |-> DictGet(items, key)]

\* predictions.items(), the keys frame_<id> taken by ascending id
ItemsOf(mapping) ==
  LET ids == {key[2] : key \in DOMAIN mapping}
      Before(id) == Cardinality({other \in ids : other < id})
  IN [k \in 1..Cardinality(ids) |->
        LET id == CHOOSE i \in ids : Before(i) = k - 1
        IN <<FrameKey(id), mapping[FrameKey(id)]>>]

HighestConf(items, highest_conf) ==
  IF items = <<>> THEN highest_conf
  ELSE HighestConf(Tail(items), HighestInList(Head(items)[2], highest_conf))

\* f"Gemini failed: {e}"
FailedText(e) ==
  CASE e = "ConnectionError" -> "Gemini failed: connection error"
    [] e = "ValueError" -> "Gemini failed: Gemini returned invalid JSON"
    [] OTHER -> "Gemini failed: object does not support item assignment"

\* the dict returned by the except branch
Fallback(highest_conf, e) ==
  [riskLevel |-> "Unknown",
   confidence |-> ScaleConfidence(highest_conf),
   rockSize |-> "Unknown",
   trajectory |-> "Unknown",
   recommendations |-> <<FailedText(e)>>]

\* (the advisory's own confidence kept when it gives one)
WithConfidenceIfAbsent(parsed, highest_conf) ==
  [k \in (DOMAIN parsed) \cup {"confidence"} |->
     IF k \in DOMAIN parsed THEN parsed[k]
     ELSE ScaleConfidence(highest_conf)]

\* summary["confidence"] = scale_confidence(highest_conf)
WithConfidence(parsed, highest_conf) ==
  [k \in (DOMAIN parsed) \cup {"confidence"} |->
     IF k = "confidence" THEN ScaleConfidence(highest_conf) ELSE parsed[k]]

\* summarize_with_gemini(predictions), the collaborator doing as advisory says
SummarizeWithGemini(preds, advisory) ==
  LET highest_conf == HighestConf(ItemsOf(preds), 0)
  IN IF advisory.kind = "raise" THEN Fallback(highest_conf, advisory.error)
     ELSE LET parsed == SafeJsonLoads(advisory.text)
          IN IF ~Truthy(parsed) THEN Fallback(highest_conf, "ValueError")
             ELSE IF parsed.t # "dict"
             THEN \* item assignment on a list or a number: TypeError
                  Fallback(highest_conf, "TypeError")
             ELSE WithConfidence(parsed.v, highest_conf)

\* ------------------------------------------ process_video_and_summarize
\* the dict "analysis" built from the summary
BuildAnalysis(s) ==
  [riskLevel |-> Get(s, "riskLevel", "Unknown"),
   confidence |-> Get(s, "confidence", 0),
   trajectory |-> Get(s, "trajectory", "Unknown"),
   rockSize |-> Get(s, "rockSize", "Unknown"),
   recommendations |->
     Get(s, "recommendations", <<"Continue monitoring", "Schedule inspection">>)]

Return(value) == [how |-> "return", value |-> value]
Raise(e) == [how |-> "raise", value |-> e]

\* f"Video processing failed: {e}"
VideoFailedText(e) ==
  CASE e = "RuntimeError" -> "Video processing failed: Cannot open video"
    [] e = "ZeroDivisionError" ->
         "Video processing failed: integer division or modulo by zero"
    [] OTHER -> "Video processing failed: error"

\* (the exception of the video stage let through)
OnVideoExceptionReraise(e) == Raise(e)

\* except Exception as e: return {"success": False, "error": ...}
OnVideoException(e) == Return([success |-> FALSE, error |-> VideoFailedText(e)])

\* The sampling loop of process_video run to the end of the video: the
\* (frame_id, decoded position) pairs it submits, in order.  When the loop
\* is at position count, saved_frame_count is the number of positions
\* before count that were sampled.
SampleLoop(nframes, interval) ==
  LET sampled == {count \in 0..(nframes - 1) : IsSampled(count, interval)}
      SavedAt(count) == Cardinality({c \in sampled : c < count})
  IN [k \in 1..Cardinality(sampled) |->
        LET count == CHOOSE c \in sampled : SavedAt(c) = k - 1
        IN <<SubmitId(count, SavedAt(count)), count>>]

\* The ways a call of process_video can end, whatever the threads do: it
\* raises when the video does not open, on frame_count % 0, and with the
\* exception of a failed task (of any one of them: future.result() re-raises
\* the first failure as_completed yields); else it returns the prediction
\* set.
ProcessVideoOutcomes(in) ==
  IF ~in.video.opened THEN {Raise("RuntimeError")}
  ELSE LET interval == FrameInterval(in.video.fps2, in.interval_sec)
       IN IF in.video.nframes > 0 /\ interval = 0
          THEN {Raise("ZeroDivisionError")}
          ELSE LET sub == SampleLoop(in.video.nframes, interval)
                   OutcomeOf(k) == TaskOutcome(in.gateway[sub[k][2]],
                                               in.conf_threshold)
                   failed == {k \in 1..Len(sub) : OutcomeOf(k)[1] # "none"}
               IN IF failed # {}
                  THEN {Raise(OutcomeOf(k)[1]) : k \in failed}
                  ELSE {Return(AsMapping([k \in 1..Len(sub) |->
                          <<FrameKey(sub[k][1]), OutcomeOf(k)[2]>>]))}

\* process_video_file(video_file): the video stage raises, returns a
\* prediction set, or is process_video run on a video.
ProcessVideoFile(video) ==
  CASE video.kind = "raise" -> {Raise(video.error)}
    [] video.kind = "ok" -> {Return(video.predictions)}
    [] OTHER -> ProcessVideoOutcomes(video.input)

\* What the video stage can do: fail, or return a prediction set.
\* Every detection carries a class, as the detector's answers do (the
\* summary reads p['class'] of each); the confidence may be absent.
Detection(class, conf) == [class |-> class, confidence |-> conf]
PredictionSets ==
  {<<>>, << <<FrameKey(0), <<>>>> >>,
   << <<FrameKey(0), <<[class |-> "dust"]>>>> >>}
  \cup {<< <<FrameKey(0), <<Detection("rock", p)>>>> >> : p \in Percents}
  \cup {<< <<FrameKey(0), <<Detection("rock", p)>>>>,
           <<FrameKey(1), <<Detection("crack", 45), [class |-> "dust"]>>>> >> :
          p \in {20, 80}}
  \cup {<< <<FrameKey(1), <<Detection("crack", 45), Detection("rock", p)>>>>,
           <<FrameKey(0), <<>>>> >> : p \in {20, 80}}

VideoOutcomes ==
  {[kind |-> "raise", error |-> e] : e \in {"RuntimeError", "ReadError"}}
  \cup {[kind |-> "ok", predictions |-> AsMapping(ps)] : ps \in PredictionSets}

\* What the text-generation collaborator can do: fail, or answer a text.
AdvisoryFields ==
  [riskLevel : {"Low", "High"},
   confidence : {10, 99},
   rockSize : {"Unknown", "Small", "Large"},
   trajectory : {"Unknown", "Stable", "Unstable"},
   recommendations : {<<"Wear helmets">>}]

AdvisoryMissing ==
  {{}, {"riskLevel", "confidence"}, {"trajectory", "rockSize"},
   {"recommendations"}}

AdvisoryBodies ==
  {NotJson, None, JObject(<<>>), JArray(<<"High">>), JNumber(7)}
  \cup {JObject([k \in AnalysisKeys \ missing |-> full[k]]) :
          full \in AdvisoryFields, missing \in AdvisoryMissing}

Advisories ==
  {[kind |-> "raise", error |-> "ConnectionError"]}
  \cup {[kind |-> "text", text |-> [wrap |-> w, body |-> b]] :
          w \in {"bare", "fence", "fence_json", "prose"}, b \in AdvisoryBodies}

\* A /predict_video call.
InitCall ==
  /\ gpc = "video"
  /\ predictions = None
  /\ summary = None
  /\ result = None
  /\ response = None
  /\ seed = None
  /\ concluded = <<>>
  /\ InitNoChat

InitPipeline ==
  /\ InitNoRun
  /\ request \in [video : VideoOutcomes, advisory : Advisories]
  /\ InitCall

\* try: all_predictions = process_video_file(video_file) except ...
VideoStage ==
  /\ gpc = "video"
  /\ \E out \in ProcessVideoFile(request.video) :
       IF out.how = "raise"
       THEN /\ result' = OnVideoException(out.value)
            /\ gpc' = "respond"
            /\ UNCHANGED <<predictions, files>>
       ELSE /\ predictions' = out.value
            /\ gpc' = "summarize"
            \* process_video leaves its output file behind when it returns
            /\ files' = IF request.video.kind = "video"
                        THEN WriteFile(OutputPath,
                               <<Piece(out.value, 0, JsonLen(ItemsOf(out.value)))>>)
                        ELSE files
            /\ UNCHANGED result
  /\ UNCHANGED <<runs, input, pc, exc, frame_interval, frame_count,
                 saved_frame_count, futures, consumed, all_predictions,
                 out_file, request, summary, response, seed, concluded,
                 cvars>>

\* summary = summarize_with_gemini(all_predictions)
Summarize ==
  /\ gpc = "summarize"
  /\ summary' = SummarizeWithGemini(predictions, request.advisory)
  /\ gpc' = "conclude"
  /\ UNCHANGED <<runs, input, pc, exc, frame_interval, frame_count,
                 saved_frame_count, futures, consumed, all_predictions, files,
                 out_file,
                 request, predictions, result, response, seed, concluded,
                 cvars>>

\* analysis = {...}; final_analysis = conclusion_analysis(analysis); return
Analyse ==
  /\ gpc = "conclude"
  /\ result' = Return([success |-> TRUE,
                       analysis |-> ConclusionAnalysis(BuildAnalysis(summary))])
  /\ gpc' = "respond"
  /\ UNCHANGED <<runs, input, pc, exc, frame_interval, frame_count,
                 saved_frame_count, futures, consumed, all_predictions, files,
                 out_file,
                 request, predictions, summary, response, seed, concluded,
                 cvars>>

\* predict_video: the value of process_video_and_summarize, or the error
\* dict of its except branch.
Respond ==
  /\ gpc = "respond"
  /\ response' = IF result.how = "return" THEN result.value
                 ELSE [success |-> FALSE, error |-> VideoFailedText(result.value)]
  /\ gpc' = "done"
  /\ UNCHANGED <<runs, input, pc, exc, frame_interval, frame_count,
                 saved_frame_count, futures, consumed, all_predictions, files,
                 out_file,
                 request, predictions, summary, result, seed, concluded,
                 cvars>>

NextPipeline == VideoStage \/ Summarize \/ Analyse \/ Respond

SpecPipeline == InitPipeline /\ [][NextPipeline]_vars

\* ------------------------------------------------------------------ claims

\* C13: the riskLevel conclusion_analysis returns is fixed by the seed's
\* confidence c alone: Low for c <= 40, Medium for 40 < c <= 60, High for
\* 60 < c <= 75, Very High for c > 75, whatever the seed's riskLevel,
\* rockSize, trajectory and recommendations.
SeedConf == IF "confidence" \in DOMAIN seed THEN seed["confidence"] ELSE 0
SeedHas(key, value) == key \in DOMAIN seed /\ seed[key] = value

C13_RiskFromConfidence ==
  (gpc = "engine" /\ Len(concluded) >= 1)
    => /\ SeedConf \in 0..40 => concluded[1]["riskLevel"] = "Low"
       /\ SeedConf \in 41..60 => concluded[1]["riskLevel"] = "Medium"
       /\ SeedConf \in 61..75 => concluded[1]["riskLevel"] = "High"
       /\ SeedConf \in 76..100 => concluded[1]["riskLevel"] = "Very High"

C13_Witness ==
  /\ gpc = "engine" /\ Len(concluded) >= 1
  /\ SeedHas("confidence", 60)
  /\ SeedHas("riskLevel", "Very High")
  /\ SeedHas("rockSize", "Large") /\ SeedHas("trajectory", "Unstable")
  /\ concluded[1]["riskLevel"] = "Medium"

\* C14: conclusion_analysis applied to its own result returns that result
\* again, equal in all five fields (the recommendations in the same order).
C14_Idempotent ==
  (gpc = "engine" /\ Len(concluded) >= 2)
    => \A k \in AnalysisKeys : concluded[2][k] = concluded[1][k]

C14_Witness ==
  /\ gpc = "engine" /\ Len(concluded) >= 2
  /\ "rockSize" \notin DOMAIN seed
  /\ SeedConf = 55
  /\ concluded[2]["recommendations"]
       = <<"Continue monitoring", "Schedule inspection">>

\* C15: a known trajectory (rockSize) of the seed is returned unchanged
\* whatever the confidence; an Unknown or absent one is filled from the
\* confidence c (trajectory: > 70 Unstable, > 50 Moderate, else Stable;
\* rockSize: > 75 Large, > 50 Medium, else Small); the result never holds
\* Unknown.
C15_GapFillOnly ==
  (gpc = "engine" /\ Len(concluded) >= 1)
    => LET out == concluded[1]
           c == SeedConf
       IN /\ IF "trajectory" \in DOMAIN seed /\ seed["trajectory"] # "Unknown"
             THEN out["trajectory"] = seed["trajectory"]
             ELSE /\ c \in 71..100 => out["trajectory"] = "Unstable"
                  /\ c \in 51..70 => out["trajectory"] = "Moderate"
                  /\ c \in 0..50 => out["trajectory"] = "Stable"
          /\ IF "rockSize" \in DOMAIN seed /\ seed["rockSize"] # "Unknown"
             THEN out["rockSize"] = seed["rockSize"]
             ELSE /\ c \in 76..100 => out["rockSize"] = "Large"
                  /\ c \in 51..75 => out["rockSize"] = "Medium"
                  /\ c \in 0..50 => out["rockSize"] = "Small"
          /\ out["trajectory"] # "Unknown"
          /\ out["rockSize"] # "Unknown"

C15_Witness ==
  /\ gpc = "engine" /\ Len(concluded) >= 1
  /\ SeedConf = 98
  /\ SeedHas("trajectory", "Stable")
  /\ SeedHas("rockSize", "Unknown")
  /\ concluded[1]["trajectory"] = "Stable"
  /\ concluded[1]["rockSize"] = "Large"

\* C16: for every seed the recommendations returned hold no entry twice and
\* are, in this order: for Low/Medium risk "Continue monitoring", then
\* "Schedule inspection" iff the (filled) rockSize is Medium or Large; for
\* High/Very High risk "Immediate inspection", "Evacuate personnel if
\* necessary", then "Reinforce support structures" iff the (filled)
\* trajectory is Unstable.  Nothing comes from the seed's recommendations.
C16_Recommendations ==
  (gpc = "engine" /\ Len(concluded) >= 1)
    => LET out == concluded[1]
           recs == out["recommendations"]
           low == out["riskLevel"] \in {"Low", "Medium"}
           sized == out["rockSize"] \in {"Medium", "Large"}
           unstable == out["trajectory"] = "Unstable"
       IN /\ \A a, b \in 1..Len(recs) : a # b => recs[a] # recs[b]
          /\ (low /\ ~sized) => recs = <<"Continue monitoring">>
          /\ (low /\ sized)
               => recs = <<"Continue monitoring", "Schedule inspection">>
          /\ (~low /\ ~unstable)
               => recs = <<"Immediate inspection",
                           "Evacuate personnel if necessary">>
          /\ (~low /\ unstable)
               => recs = <<"Immediate inspection",
                           "Evacuate personnel if necessary",
                           "Reinforce support structures">>

C16_Witness ==
  /\ gpc = "engine" /\ Len(concluded) >= 1
  /\ SeedHas("recommendations",
             <<"Continue monitoring", "Continue monitoring">>)
  /\ SeedConf = 30
  /\ SeedHas("rockSize", "Medium")
  /\ concluded[1]["recommendations"]
       = <<"Continue monitoring", "Schedule inspection">>

\* ---------------------------------------------------- end-to-end scenario
\* A 20-second video at 10 fps sampled every 2 seconds with the default
\* threshold; the gateway finds a detection of confidence 0.80 (and one of
\* 0.30) in the fourth sampled frame, decoded at position 60, and nothing at
\* or above the threshold anywhere else.
E2EVideo == [opened |-> TRUE, nframes |-> 200, fps2 |-> 20]

E2EGateways ==
  {[pos \in 0..(E2EVideo.nframes - 1) |->
      IF pos = 60 THEN Ok(<<PredHigh, PredLow>>) ELSE other] :
     other \in {Ok(<<>>), Ok(<<PredLow>>), Ok(<<PredNoConf, PredLow>>)}}

E2EInputs ==
  {[video |-> E2EVideo, interval_sec |-> 2,
    conf_threshold |-> DefaultConfThreshold, gateway |-> g] : g \in E2EGateways}

InitE2E ==
  /\ InitNoRun
  /\ request \in [video : {[kind |-> "video", input |-> i] : i \in E2EInputs},
                  advisory : Advisories]
  /\ InitCall

SpecE2E == InitE2E /\ [][NextPipeline]_vars

\* The ways process_video ends when it is run task by task are among
\* ProcessVideoOutcomes: the exception it raises, the items it returns, and
\* the output file of a single call holds the text of what it returned.
ProcessVideoAgrees ==
  \A r \in runs :
    /\ pc[r] = "raised" => Raise(exc[r]) \in ProcessVideoOutcomes(input[r])
    /\ pc[r] = "returned" =>
         /\ Return(AsMapping(all_predictions[r])) \in ProcessVideoOutcomes(input[r])
         /\ Len(all_predictions[r]) = Cardinality(DOMAIN AsMapping(all_predictions[r]))
         /\ runs = {r} =>
              /\ Exists(OutputPath)
              /\ files[OutputPath] = <<Piece(all_predictions[r], 0,
                                             JsonLen(all_predictions[r]))>>
              /\ JsonLen(all_predictions[r])
                   = JsonLen(ItemsOf(AsMapping(all_predictions[r])))

\* ----------------------------------------------- claims about the pipeline
\* dict d has key with that value
SeedHasIn(d, key, value) == key \in DOMAIN d /\ d[key] = value
\* every detection of a prediction set
AllDetections(ps) ==
  UNION {{ps[key][j] : j \in 1..Len(ps[key])} : key \in DOMAIN ps}
\* the highest raw confidence (percent) of a prediction set, 0 when empty
MaxConfOf(ps) ==
  LET cs == {Conf(d) : d \in AllDetections(ps)} \cup {0}
  IN CHOOSE c \in cs : \A o \in cs : o <= c
\* the summary of the call has been computed
Summarized == gpc \in {"conclude", "respond", "done"} /\ summary # None
\* s is the integer nearest to num/den
NearestTo(s, num, den) == 2 * s * den - den <= 2 * num /\ 2 * num <= 2 * s * den + den
\* the piecewise table of the scaled confidence for a raw confidence of p percent
InTable(p, s) ==
  IF p <= 40 THEN s = p
  ELSE IF p <= 55 THEN NearestTo(s, 40 * 15 + (p - 40) * 50, 15)
  ELSE IF p <= 60 THEN s = 90 + (p - 55)
  ELSE s = 98

\* C11: the confidence of the summary is the scaled value of the highest raw
\* confidence a (as a percent A = a*100): A itself up to 40, 40 + (A-40)*50/15
\* rounded to the nearest integer up to 55, 90 + (A-55) up to 60, and 98 above;
\* so 0.30 gives 30, 0.45 gives 57, 0.58 gives 93 and 0.70 gives 98.
C11_ScaleTable ==
  Summarized =>
    LET p == MaxConfOf(predictions)
        s == summary["confidence"]
    IN /\ InTable(p, s)
       /\ p = 30 => s = 30
       /\ p = 45 => s = 57
       /\ p = 58 => s = 93
       /\ p = 70 => s = 98

C11_Witness ==
  /\ Summarized
  /\ MaxConfOf(predictions) = 58
  /\ summary["confidence"] = 93

\* C12: the scaled confidence is an integer of 0..100, never above 98, and
\* monotone: a raw confidence that is not higher never scales higher.
C12_MonotoneCapped ==
  Summarized =>
    LET p == MaxConfOf(predictions)
        s == summary["confidence"]
    IN /\ s \in 0..100
       /\ s <= 98
       /\ \A q \in Percents :
            /\ q <= p => ScaleConfidence(q) <= s
            /\ q >= p => s <= ScaleConfidence(q)

C12_Witness ==
  /\ Summarized
  /\ MaxConfOf(predictions) = 100
  /\ summary["confidence"] = 98

\* the answer of process_video_and_summarize is there
Answered == gpc \in {"respond", "done"}
\* the advisory summary is no JSON object, or the collaborator failed
AdvisoryUnusable ==
  \/ request.advisory.kind = "raise"
  \/ /\ request.advisory.kind = "text"
     /\ \/ request.advisory.text.wrap = "prose"
        \/ request.advisory.text.body.t # "dict"

\* C17: in a successful answer the confidence is the scaled highest raw
\* detection confidence and the riskLevel is the tier of that confidence,
\* whatever confidence or riskLevel the advisory summary states and whether
\* or not it could be used at all.
C17_DetectionsDecide ==
  (Answered /\ request.video.kind = "ok") =>
    /\ result.how = "return"
    /\ result.value.success
    /\ LET c == ScaleConfidence(MaxConfOf(request.video.predictions))
           a == result.value.analysis
       IN /\ a.confidence = c
          /\ a.riskLevel = (IF c <= 40 THEN "Low" ELSE IF c <= 60 THEN "Medium"
                            ELSE IF c <= 75 THEN "High" ELSE "Very High")

C17_Witness ==
  /\ gpc = "done"
  /\ request.video.kind = "ok"
  /\ MaxConfOf(request.video.predictions) = 45
  /\ request.advisory.kind = "text"
  /\ Truthy(SafeJsonLoads(request.advisory.text))
  /\ request.advisory.text.body.t = "dict"
  /\ SeedHasIn(request.advisory.text.body.v, "confidence", 99)
  /\ SeedHasIn(request.advisory.text.body.v, "riskLevel", "Low")
  /\ response.analysis.confidence = 57
  /\ response.analysis.riskLevel = "Medium"

\* the recommendations the refinement can produce
TierTexts ==
  {"Continue monitoring", "Schedule inspection", "Immediate inspection",
   "Evacuate personnel if necessary", "Reinforce support structures"}

\* C18: when the advisory summary is unusable the answer is still a success
\* whose analysis is the refinement of the seed {rockSize Unknown, trajectory
\* Unknown, confidence = scaled highest raw confidence}, and the failure
\* message is not among its recommendations.
C18_FallbackRefined ==
  (Answered /\ request.video.kind = "ok" /\ AdvisoryUnusable) =>
    /\ result.how = "return"
    /\ result.value.success
    /\ result.value.analysis =
         ConclusionAnalysis(
           [rockSize |-> "Unknown", trajectory |-> "Unknown",
            confidence |-> ScaleConfidence(MaxConfOf(request.video.predictions)),
            recommendations |-> <<>>])
    /\ \A k \in 1..Len(result.value.analysis.recommendations) :
         result.value.analysis.recommendations[k] \in TierTexts

C18_Witness ==
  /\ gpc = "done"
  /\ request.video.kind = "ok"
  /\ request.advisory.kind = "raise"
  /\ MaxConfOf(request.video.predictions) = 80
  /\ response.success
  /\ response.analysis.riskLevel = "Very High"
  /\ response.analysis.trajectory = "Unstable"
  /\ response.analysis.rockSize = "Large"
  /\ response.analysis.recommendations =
       <<"Immediate inspection", "Evacuate personnel if necessary",
         "Reinforce support structures">>

\* C19: when the video stage raises, process_video_and_summarize raises
\* nothing: it returns {success: false, error: text} with no analysis, and
\* that is the response of the endpoint; no summary is asked for.
C19_VideoFailureStructured ==
  (Answered /\ request.video.kind = "raise") =>
    /\ result.how = "return"
    /\ DOMAIN result.value = {"success", "error"}
    /\ ~result.value.success
    /\ result.value.error = VideoFailedText(request.video.error)
    /\ summary = None
    /\ predictions = None
    /\ gpc = "done" => response = result.value

C19_Witness ==
  /\ gpc = "done"
  /\ request.video.kind = "raise"
  /\ ~response.success
  /\ "analysis" \notin DOMAIN response


\* the advisory summary is used and gives key a value other than "Unknown"
AdvisoryKnows(key) ==
  /\ ~AdvisoryUnusable
  /\ key \in DOMAIN request.advisory.text.body.v
  /\ request.advisory.text.body.v[key] # "Unknown"
\* the sampled frames of the call are frame_0 .. frame_9 and the only
\* detection kept is the one of confidence 0.80 in frame_3
E2ESampling ==
  /\ DOMAIN predictions = {<<"frame_", id>> : id \in 0..9}
  /\ \A id \in 0..9 :
       predictions[<<"frame_", id>>] =
         (IF id = 3 THEN <<Detection("rock", 80)>> ELSE <<>>)

\* C20 as stated: in the end-to-end scenario 10 frames with indices 0..9 are
\* sampled and the final Analysis is Very High, 98, Unstable, Large with the
\* recommendations Immediate inspection, Evacuate personnel if necessary,
\* Reinforce support structures, whatever the advisory summary says.
C20_EndToEnd ==
  gpc = "done" =>
    /\ E2ESampling
    /\ response.success
    /\ response.analysis =
         [riskLevel |-> "Very High", confidence |-> 98,
          trajectory |-> "Unstable", rockSize |-> "Large",
          recommendations |->
            <<"Immediate inspection", "Evacuate personnel if necessary",
              "Reinforce support structures">>]

\* C20 amended: in the end-to-end scenario 10 frames with indices 0..9 are
\* sampled and the final Analysis has riskLevel Very High and confidence 98;
\* trajectory is Unstable and rockSize is Large unless the advisory summary
\* that was used gives a known value for that field, which is kept; the
\* recommendations are Immediate inspection, Evacuate personnel if necessary,
\* followed by Reinforce support structures exactly when the trajectory is
\* Unstable.
C20_EndToEndAmended ==
  gpc = "done" =>
    /\ E2ESampling
    /\ response.success
    /\ LET a == response.analysis
       IN /\ DOMAIN a = AnalysisKeys
          /\ a.riskLevel = "Very High"
          /\ a.confidence = 98
          /\ a.trajectory = (IF AdvisoryKnows("trajectory")
                             THEN request.advisory.text.body.v["trajectory"]
                             ELSE "Unstable")
          /\ a.rockSize = (IF AdvisoryKnows("rockSize")
                           THEN request.advisory.text.body.v["rockSize"]
                           ELSE "Large")
          /\ a.recommendations =
               (IF a.trajectory = "Unstable"
                THEN <<"Immediate inspection", "Evacuate personnel if necessary",
                       "Reinforce support structures">>
                ELSE <<"Immediate inspection", "Evacuate personnel if necessary">>)

C20_Witness ==
  /\ gpc = "done"
  /\ request.video.kind = "video"
  /\ E2ESampling
  /\ AdvisoryKnows("trajectory")
  /\ response.analysis.trajectory = "Stable"
  /\ response.analysis.rockSize = "Large"
  /\ response.analysis.confidence = 98
  /\ response.analysis.recommendations =
       <<"Immediate inspection", "Evacuate personnel if necessary">>


\* ------------------------------------------------------------- Chatbot.py
UserQueries == {"q1", "q2"}

\* What the Gemini chat can do with a query: send_message raises; the
\* response has no text (resp.text raises); or the response has a text raw
\* in which extract_all_json finds the JSON objects steps.
GeminiOutcomes ==
  {[kind |-> "error"], [kind |-> "notext"],
   [kind |-> "text", raw |-> "r1", steps |-> <<>>],
   [kind |-> "text", raw |-> "r2",
    steps |-> <<[step |-> "plan", content |-> "p2"],
                [step |-> "Output", content |-> "o2"]>>],
   [kind |-> "text", raw |-> "r3",
    steps |-> <<[step |-> "output", content |-> ""]>>]}

\* str.lower() on the step names in use
Lower(name) == IF name = "Output" THEN "output" ELSE name

\* a or b on strings; an absent key (None) is held as "", falsy alike
Or(a, b) == IF a # "" THEN a ELSE b

\* the loop "for step in steps": the last output step decides final_output
RECURSIVE FinalOutput(_, _)
FinalOutput(steps, final_output) ==
  IF steps = <<>> THEN final_output
  ELSE LET step == Head(steps)
           stype == Lower(Or(Get(step, "step", ""), ""))
       IN FinalOutput(Tail(steps),
                      IF stype = "output"
                      THEN Or(Get(step, "content", ""), Get(step, "output", ""))
                      ELSE final_output)

\* reply = final_output if final_output else raw
Reply(out) == Or(FinalOutput(out.steps, ""), out.raw)

UserMessage(text) == [role |-> "user", text |-> text]
ModelMessage(text) == [role |-> "model", text |-> text]

\* msgs[-k:] of Python: the last k entries, and the whole list for k = 0
SliceLast(msgs, k) ==
  IF k = 0 \/ k >= Len(msgs) THEN msgs
  ELSE SubSeq(msgs, Len(msgs) - k + 1, Len(msgs))

\* (the newest max_len entries kept, the first entry not set apart)
TrimHistoryNoSeed(msgs, max_len) ==
  IF Len(msgs) <= max_len THEN msgs ELSE SliceLast(msgs, max_len)

\* trim_history(msgs, max_len)
TrimHistory(msgs, max_len) ==
  IF Len(msgs) <= max_len THEN msgs
  ELSE <<msgs[1]>> \o SliceLast(msgs, max_len - 1)

InitChat ==
  /\ InitNoRun
  /\ request = None
  /\ gpc = "off"
  /\ predictions = None
  /\ summary = None
  /\ result = None
  /\ response = None
  /\ seed = None
  /\ concluded = <<>>
  /\ InitMessages
  /\ cpc = "idle"

\* process_user_query up to the Gemini call: the chat is started, the user
\* query appended and the history trimmed.
Ask ==
  /\ cpc = "idle"
  /\ calls < MaxCalls
  /\ \E q \in UserQueries :
       /\ user_query' = q
       /\ messages' = TrimHistory(Append(messages, UserMessage(q)), MAX_MESSAGES)
  /\ cpc' = "send"
  /\ calls' = calls + 1
  /\ UNCHANGED <<runs, input, pc, exc, frame_interval, frame_count,
                 saved_frame_count, futures, consumed, all_predictions, files,
                 out_file,
                 request, gpc, predictions, summary, result, response, seed,
                 concluded, chat_result, logged>>

\* process_user_query from chat.send_message to its end: the error dict
\* when the call raises; else the reply is appended, the history trimmed
\* and the exchange logged (a failure to log is only reported).
Answer ==
  /\ cpc = "send"
  /\ \E out \in GeminiOutcomes :
       CASE out.kind = "error" ->
              /\ chat_result' = Return([raw |-> "", steps |-> <<>>,
                                        final |-> "Gemini API error"])
              /\ UNCHANGED <<messages, logged>>
         [] out.kind = "notext" ->
              /\ chat_result' = Raise("ValueError")
              /\ UNCHANGED <<messages, logged>>
         [] OTHER ->
              /\ messages' = TrimHistory(Append(messages, ModelMessage(Reply(out))),
                                         MAX_MESSAGES)
              /\ logged' = logged + 1
              /\ chat_result' = Return([final |-> Reply(out)])
  /\ cpc' = "idle"
  /\ user_query' = None
  /\ UNCHANGED <<runs, input, pc, exc, frame_interval, frame_count,
                 saved_frame_count, futures, consumed, all_predictions, files,
                 out_file,
                 request, gpc, predictions, summary, result, response, seed,
                 concluded, calls>>

NextChat == Ask \/ Answer

SpecChat == InitChat /\ [][NextChat]_vars

\* ------------------------------------------------ claims about the chatbot
\* a step that changes messages keeps the first entry and the newest
\* entries of the old history with the one new entry; what it drops are the
\* entries that followed the first one
DropsOldestOnly ==
  messages' # messages =>
    LET all == Append(messages, messages'[Len(messages')])
        dropped == Len(all) - Len(messages')
    IN /\ dropped >= 0
       /\ messages'[1] = messages[1]
       /\ \A k \in 2..Len(messages') : messages'[k] = all[k + dropped]

\* C21: after any sequence of process_user_query calls, succeeding or
\* failing at the Gemini call, messages holds at most MAX_MESSAGES (10)
\* entries and its first entry is the seed system prompt; and trimming only
\* ever drops the oldest entries after the seed.
C21_HistoryBounded ==
  /\ [](/\ Len(messages) >= 1
        /\ Len(messages) <= MAX_MESSAGES
        /\ messages[1] = SeedMessage)
  /\ [][DropsOldestOnly]_vars

C21_Witness ==
  /\ cpc = "idle"
  /\ logged >= 5
  /\ Len(messages) = MAX_MESSAGES
  /\ messages[1] = SeedMessage
  /\ messages[MAX_MESSAGES].role = "model"

====
